---- MODULE Spec2Model ----
(***************************************************************************)
(* A model of rdap_server.py: the WHOIS-to-RDAP mapping                    *)
(* (map_whois_to_rdap, format_date, parse_date) and the request handler    *)
(* (domain_lookup, add_cors_headers).                                      *)
(*                                                                         *)
(* Python strings are sequences of one-character strings, so that          *)
(* lower(), upper(), split(), the regular expressions and strptime are     *)
(* computed character by character.  A WHOIS value is a record             *)
(*   [t, s, l, d]  with t the Python type: "absent" (the key is not in the *)
(* mapping), "none" (None), "str" (s holds the characters), "list" (l      *)
(* holds the elements) or "dt" (a datetime, d = <<Y, M, D, h, m, s>>).     *)
(***************************************************************************)
EXTENDS Integers, Sequences, FiniteSets, TLC

\* ------------------------------------------------------------------ text

UPPER == <<"A","B","C","D","E","F","G","H","I","J","K","L","M","N","O","P","Q","R","S","T","U","V","W","X","Y","Z">>

LOWER == <<"a","b","c","d","e","f","g","h","i","j","k","l","m","n","o","p","q","r","s","t","u","v","w","x","y","z">>

DIGITS == <<"0","1","2","3","4","5","6","7","8","9">>

IsUpper(c) == \E i \in DOMAIN UPPER : UPPER[i] = c

IsLower(c) == \E i \in DOMAIN LOWER : LOWER[i] = c

IsDigit(c) == \E i \in DOMAIN DIGITS : DIGITS[i] = c

\* str.isspace for the characters \s matches
IsSpace(c) == c \in {" ", "\t", "\n"}

LowerChar(c) == IF IsUpper(c) THEN LOWER[CHOOSE i \in DOMAIN UPPER : UPPER[i] = c] ELSE c

UpperChar(c) == IF IsLower(c) THEN UPPER[CHOOSE i \in DOMAIN LOWER : LOWER[i] = c] ELSE c

\* str.lower()
Lower(s) == [i \in 1..Len(s) |-> LowerChar(s[i])]

\* str.upper()
Upper(s) == [i \in 1..Len(s) |-> UpperChar(s[i])]

\* s[i:].startswith(lit), i counted from 1
StartsWith(s, i, lit) ==
    /\ i >= 1
    /\ i + Len(lit) - 1 <= Len(s)
    /\ SubSeq(s, i, i + Len(lit) - 1) = lit

\* lit in s
Contains(s, lit) == \E i \in 1..Len(s) : StartsWith(s, i, lit)

Min(S) == CHOOSE x \in S : \A y \in S : x <= y

Max(S) == CHOOSE x \in S : \A y \in S : x >= y

\* the first position >= i that holds no whitespace (Len(s)+1 at the end)
SkipSpace(s, i) == Min({j \in i..(Len(s) + 1) : j = Len(s) + 1 \/ ~IsSpace(s[j])})

\* the first position >= i that holds whitespace (Len(s)+1 at the end)
NextSpace(s, i) == Min({j \in i..(Len(s) + 1) : j = Len(s) + 1 \/ IsSpace(s[j])})

\* the first position >= i that holds a line break (Len(s)+1 at the end)
LineEnd(s, i) == Min({j \in i..(Len(s) + 1) : j = Len(s) + 1 \/ s[j] = "\n"})

\* str.strip()
Strip(s) ==
    LET keep == {j \in 1..Len(s) : ~IsSpace(s[j])}
    IN  IF keep = {} THEN <<>> ELSE SubSeq(s, Min(keep), Max(keep))

\* str.split(): the maximal runs of non-whitespace
RECURSIVE SplitFrom(_, _)
SplitFrom(s, i) ==
    LET j == SkipSpace(s, i)
    IN  IF j > Len(s) THEN <<>>
        ELSE <<SubSeq(s, j, NextSpace(s, j) - 1)>> \o SplitFrom(s, NextSpace(s, j))

Split(s) == SplitFrom(s, 1)

\* every ordering of a finite set: list(a_set) gives one of them
Orderings(S) ==
    {q \in [1..Cardinality(S) -> S] : \A i, j \in 1..Cardinality(S) : q[i] = q[j] => i = j}

Range(q) == {q[i] : i \in DOMAIN q}

\* -------------------------------------------------- status normalisation

HTTP == <<"h","t","t","p",":","/","/">>

HTTPS == <<"h","t","t","p","s",":","/","/">>

\* \s*\(.*\) matched at position i: the position of its last character, the
\* last ")" of the line of the "(", or 0 for no match
ParenMatchEnd(s, i) ==
    LET j == SkipSpace(s, i)
    IN  IF j <= Len(s) /\ s[j] = "("
        THEN LET closers == {k \in (j + 1)..(LineEnd(s, j + 1) - 1) : s[k] = ")"}
             IN  IF closers = {} THEN 0 ELSE Max(closers)
        ELSE 0

\* \s*https?://\S+ matched at position i: the position of its last character,
\* or 0 for no match
UrlMatchEnd(s, i) ==
    LET j == SkipSpace(s, i)
        k == IF StartsWith(s, j, HTTPS) THEN j + Len(HTTPS)
             ELSE IF StartsWith(s, j, HTTP) THEN j + Len(HTTP)
             ELSE 0
    IN  IF k = 0 \/ k > Len(s) \/ IsSpace(s[k]) THEN 0 ELSE NextSpace(s, k) - 1

\* re.sub(r'\s*\(.*\)|\s*https?://\S+', '', s) from position i on
RECURSIVE RemoveMatches(_, _)
RemoveMatches(s, i) ==
    IF i > Len(s) THEN <<>>
    ELSE LET p == ParenMatchEnd(s, i)
             e == IF p # 0 THEN p ELSE UrlMatchEnd(s, i)
         IN  IF e # 0 THEN RemoveMatches(s, e + 1)
             ELSE <<s[i]>> \o RemoveMatches(s, i + 1)

s_clean(s) == Strip(RemoveMatches(s, 1))

\* re.sub(r'(?<!^)(?=[A-Z])', ' ', s) from position i on
RECURSIVE InsertSpaces(_, _)
InsertSpaces(s, i) ==
    IF i > Len(s) THEN <<>>
    ELSE (IF i > 1 /\ IsUpper(s[i]) THEN <<" ", s[i]>> ELSE <<s[i]>>)
         \o InsertSpaces(s, i + 1)

s_with_spaces(s) == InsertSpaces(s_clean(s), 1)

s_lower(s) == Lower(s_with_spaces(s))

\* ------------------------------------------------------------------ dates

DigitVal(c) == (CHOOSE i \in DOMAIN DIGITS : DIGITS[i] = c) - 1

\* the digit characters lo..hi
Digs(lo, hi) == {DIGITS[i] : i \in (lo + 1)..(hi + 1)}

At(s, p, set) == p >= 1 /\ p <= Len(s) /\ s[p] \in set

Dig(s, p) == At(s, p, Digs(0, 9))

\* int(s[p:p+n]) of n digits, a leading blank ignored
RECURSIVE IntOf(_, _, _)
IntOf(s, p, n) ==
    IF n = 0 THEN 0
    ELSE IF s[p + n - 1] = " " THEN 0
    ELSE 10 * IntOf(s, p, n - 1) + DigitVal(s[p + n - 1])

\* :? at p: 1 for a colon, else 0
ZColon(s, p) == IF At(s, p, {":"}) THEN 1 ELSE 0

\* [+-]\d\d:?[0-5]\d at p: its length, 0 for no match
ZHead(s, p) ==
    IF /\ At(s, p, {"+", "-"}) /\ Dig(s, p + 1) /\ Dig(s, p + 2)
       /\ At(s, p + 3 + ZColon(s, p + 3), Digs(0, 5))
       /\ Dig(s, p + 4 + ZColon(s, p + 3))
    THEN 5 + ZColon(s, p + 3)
    ELSE 0

\* (\.\d{1,6})? at p: its length
ZFrac(s, p) ==
    IF At(s, p, {"."}) /\ Dig(s, p + 1)
    THEN 1 + Max({k \in 1..6 : \A j \in 1..k : Dig(s, p + j)})
    ELSE 0

\* (:?[0-5]\d(\.\d{1,6})?)? at p: its length
ZTail(s, p) ==
    IF At(s, p + ZColon(s, p), Digs(0, 5)) /\ Dig(s, p + ZColon(s, p) + 1)
    THEN ZColon(s, p) + 2 + ZFrac(s, p + ZColon(s, p) + 2)
    ELSE 0

\* the parts of an offset at p whose head is h long and whose tail is tl long
ZParts(s, p, h, tl) ==
    [n |-> h + tl, colon1 |-> h = 6, secs |-> tl > 0,
     colon2 |-> tl > 0 /\ At(s, p + h, {":"}), hours |-> IntOf(s, p + 1, 2)]

\* [+-]\d\d:?[0-5]\d(:?[0-5]\d(\.\d{1,6})?)?|(?-i:Z) matched at p, the
\* first alternative's head being h long: the parts of the match (n = 0: no
\* match)
ZAlternatives(s, p, h) ==
    IF h > 0 THEN ZParts(s, p, h, ZTail(s, p + h))
    ELSE IF At(s, p, {"Z"})
    THEN [n |-> 1, colon1 |-> FALSE, secs |-> FALSE, colon2 |-> FALSE, hours |-> 0]
    ELSE [n |-> 0, colon1 |-> FALSE, secs |-> FALSE, colon2 |-> FALSE, hours |-> 0]

ZMatch(s, p) == ZAlternatives(s, p, ZHead(s, p))

\* the offset _strptime accepts: the colons used consistently, and less than a day
ZValid(z) ==
    /\ z.secs => (z.colon1 <=> z.colon2)
    /\ z.hours < 24

\* the length the regular expression of a format token matches at p (0: no
\* match): a directive, \s+ for the blank of the format, or a literal
\* character, matched ignoring case
TokenLen(tok, s, p) ==
    CASE tok = "%Y" -> IF Dig(s, p) /\ Dig(s, p + 1) /\ Dig(s, p + 2) /\ Dig(s, p + 3) THEN 4 ELSE 0
      [] tok = "%m" -> IF At(s, p, {"1"}) /\ At(s, p + 1, Digs(0, 2)) THEN 2
                       ELSE IF At(s, p, {"0"}) /\ At(s, p + 1, Digs(1, 9)) THEN 2
                       ELSE IF At(s, p, Digs(1, 9)) THEN 1 ELSE 0
      [] tok = "%d" -> IF At(s, p, {"3"}) /\ At(s, p + 1, Digs(0, 1)) THEN 2
                       ELSE IF At(s, p, Digs(1, 2)) /\ Dig(s, p + 1) THEN 2
                       ELSE IF At(s, p, {"0"}) /\ At(s, p + 1, Digs(1, 9)) THEN 2
                       ELSE IF At(s, p, Digs(1, 9)) THEN 1
                       ELSE IF At(s, p, {" "}) /\ At(s, p + 1, Digs(1, 9)) THEN 2 ELSE 0
      [] tok = "%H" -> IF At(s, p, {"2"}) /\ At(s, p + 1, Digs(0, 3)) THEN 2
                       ELSE IF At(s, p, Digs(0, 1)) /\ Dig(s, p + 1) THEN 2
                       ELSE IF Dig(s, p) THEN 1 ELSE 0
      [] tok = "%M" -> IF At(s, p, Digs(0, 5)) /\ Dig(s, p + 1) THEN 2
                       ELSE IF Dig(s, p) THEN 1 ELSE 0
      [] tok = "%S" -> IF At(s, p, {"6"}) /\ At(s, p + 1, Digs(0, 1)) THEN 2
                       ELSE IF At(s, p, Digs(0, 5)) /\ Dig(s, p + 1) THEN 2
                       ELSE IF Dig(s, p) THEN 1 ELSE 0
      [] tok = "%z" -> ZMatch(s, p).n
      [] tok = " " -> IF p >= 1 /\ p <= Len(s) THEN SkipSpace(s, p) - p ELSE 0
      [] OTHER -> IF p >= 1 /\ p <= Len(s) /\ LowerChar(s[p]) = LowerChar(tok) THEN 1 ELSE 0

\* re.match of the format's pattern: where each token matched, and whether
\* the whole string was consumed
RECURSIVE Walk(_, _, _, _)
RECURSIVE WalkOn(_, _, _, _, _)
Walk(s, fmt, k, p) ==
    IF k > Len(fmt) THEN [ok |-> p = Len(s) + 1, at |-> <<>>]
    ELSE WalkOn(s, fmt, k, p, TokenLen(fmt[k], s, p))

\* token k matched n characters at p (n = 0: no match)
WalkOn(s, fmt, k, p, n) ==
    IF n = 0 THEN [ok |-> FALSE, at |-> <<>>]
    ELSE [Walk(s, fmt, k + 1, p + n) EXCEPT !.at = <<<<p, n>>>> \o @]

IsLeap(y) == y % 4 = 0 /\ (y % 100 # 0 \/ y % 400 = 0)

DaysInMonth(y, m) ==
    IF m = 2 THEN (IF IsLeap(y) THEN 29 ELSE 28)
    ELSE IF m \in {4, 6, 9, 11} THEN 30 ELSE 31

NoDate == <<>>

\* the value of directive dir in a match w of fmt, 0 when fmt has no dir
Field(s, fmt, w, dir) ==
    IF \E k \in DOMAIN fmt : fmt[k] = dir
    THEN IntOf(s, w.at[CHOOSE k \in DOMAIN fmt : fmt[k] = dir][1],
               w.at[CHOOSE k \in DOMAIN fmt : fmt[k] = dir][2])
    ELSE 0

\* the offset of a match w of fmt is one _strptime accepts
OffsetValid(s, fmt, w) ==
    (\E k \in DOMAIN fmt : fmt[k] = "%z")
        => ZValid(ZMatch(s, w.at[CHOOSE k \in DOMAIN fmt : fmt[k] = "%z"][1]))

\* the fields of a match w of fmt make a datetime
FieldsValid(s, fmt, w) ==
    /\ Field(s, fmt, w, "%Y") >= 1
    /\ Field(s, fmt, w, "%d") <= DaysInMonth(Field(s, fmt, w, "%Y"), Field(s, fmt, w, "%m"))
    /\ Field(s, fmt, w, "%S") <= 59
    /\ OffsetValid(s, fmt, w)

Matched(s, fmt, w) ==
    IF w.ok /\ FieldsValid(s, fmt, w)
    THEN [ok |-> TRUE,
          d |-> <<Field(s, fmt, w, "%Y"), Field(s, fmt, w, "%m"), Field(s, fmt, w, "%d"),
                  Field(s, fmt, w, "%H"), Field(s, fmt, w, "%M"), Field(s, fmt, w, "%S")>>]
    ELSE [ok |-> FALSE, d |-> NoDate]

\* datetime.datetime.strptime(date_str, fmt): ok is FALSE for a ValueError
strptime(s, fmt) == Matched(s, fmt, Walk(s, fmt, 1, 1))

date_formats ==
    << <<"%Y", "-", "%m", "-", "%d", " ", "%H", ":", "%M", ":", "%S", "%z">>,
       <<"%Y", "-", "%m", "-", "%d", " ", "%H", ":", "%M", ":", "%S">>,
       <<"%Y", "-", "%m", "-", "%d", "T", "%H", ":", "%M", ":", "%S", "Z">>,
       <<"%Y", "-", "%m", "-", "%d">> >>

\* a, unless it failed
OrElse(a, b) == IF a.ok THEN a ELSE b

\* for fmt in date_formats, from the k-th on: the first that parses
\* date_str; ok is FALSE for None
RECURSIVE try_formats(_, _)
try_formats(date_str, k) ==
    IF k > Len(date_formats) THEN [ok |-> FALSE, d |-> NoDate]
    ELSE OrElse(strptime(date_str, date_formats[k]), try_formats(date_str, k + 1))

parse_date(date_str) == try_formats(date_str, 1)

\* n in decimal, zero-padded to width digits
RECURSIVE ZeroPad(_, _)
ZeroPad(n, width) ==
    IF width = 0 THEN <<>> ELSE ZeroPad(n \div 10, width - 1) \o <<DIGITS[(n % 10) + 1]>>

\* d.strftime("%Y-%m-%dT%H:%M:%SZ") of a datetime with a four-digit year
strftime(d) ==
    ZeroPad(d[1], 4) \o <<"-">> \o ZeroPad(d[2], 2) \o <<"-">> \o ZeroPad(d[3], 2)
    \o <<"T">> \o ZeroPad(d[4], 2) \o <<":">> \o ZeroPad(d[5], 2) \o <<":">>
    \o ZeroPad(d[6], 2) \o <<"Z">>

\* parsed_date.strftime(...) if parsed_date, else nothing
format_parsed(parsed_date) ==
    IF parsed_date.ok THEN <<strftime(parsed_date.d)>> ELSE <<>>

\* what one value gives: the formatted date, or nothing
format_one(d) ==
    IF d.t = "dt" THEN <<strftime(d.d)>>
    ELSE IF d.t = "str" THEN format_parsed(parse_date(d.s))
    ELSE <<>>

\* for d in dt: formatted_dates.append(...)
RECURSIVE formatted_dates(_, _)
formatted_dates(dt, i) ==
    IF i > Len(dt) THEN <<>> ELSE format_one(dt[i]) \o formatted_dates(dt, i + 1)

\* format_date(dt): [list |-> TRUE, l |-> the formatted dates] for a list,
\* else [list |-> FALSE, l |-> the one formatted date, or none for None]
format_date(dt) ==
    IF dt.t = "list" THEN [list |-> TRUE, l |-> formatted_dates(dt.l, 1)]
    ELSE [list |-> FALSE, l |-> format_one(dt)]

\* ------------------------------------------------------- the WHOIS record

Absent == [t |-> "absent", s |-> <<>>, l |-> <<>>, d |-> NoDate]

None == [t |-> "none", s |-> <<>>, l |-> <<>>, d |-> NoDate]

Str(chars) == [t |-> "str", s |-> chars, l |-> <<>>, d |-> NoDate]

List(elems) == [t |-> "list", s |-> <<>>, l |-> elems, d |-> NoDate]

Datetime(d) == [t |-> "dt", s |-> <<>>, l |-> <<>>, d |-> d]

\* bool(v)
Truthy(v) ==
    CASE v.t = "str" -> Len(v.s) > 0
      [] v.t = "list" -> Len(v.l) > 0
      [] v.t = "dt" -> TRUE
      [] OTHER -> FALSE

\* a or b
Or(a, b) == IF Truthy(a) THEN a ELSE b

\* whois_data.get(key): None for a key the mapping does not hold
get(whois_data, key) ==
    IF whois_data.f[key].t = "absent" THEN None ELSE whois_data.f[key]

\* whois_data.get(key, default): the default only for a key the mapping
\* does not hold, a key held with None gives None
get_default(whois_data, key, default) ==
    IF whois_data.f[key].t = "absent" THEN default ELSE whois_data.f[key]

\* ---------------------------------------------------- map_whois_to_rdap

COSMOTOWN == <<"c","o","s","m","o","t","o","w","n">>

MARKMONITOR == <<"m","a","r","k","m","o","n","i","t","o","r">>

ABUSE == <<"a","b","u","s","e">>

IANA_COSMOTOWN == <<"1","5","0","9">>

IANA_MARKMONITOR == <<"2","9","2">>

ABUSE_EMAIL_COSMOTOWN == <<"a","b","u","s","e","@","c","o","s","m","o","t","o","w","n",".","c","o","m">>

ABUSE_PHONE_COSMOTOWN == <<"+","1",".","6","5","0","3","1","9","8","9","3","0">>

TEL == <<"t","e","l",":">>

HANDLE_SUFFIX == <<"-","D","O","M","A","I","N">>

SELF_LINK == <<"h","t","t","p","s",":","/","/","w","w","w",".","c","o","s","m","o","t","o","w","n",".","c","o","m","/","r","d","a","p","/","d","o","m","a","i","n","/">>

SIGNEDDELEGATION == <<"s","i","g","n","e","d","d","e","l","e","g","a","t","i","o","n">>

rdapConformance ==
    <<"rdap_level_0", "icann_rdap_technical_implementation_guide_0",
      "icann_rdap_response_profile_0">>

\* "handle" of the initial rdap_response: the mapping's registry_domain_id
\* entry whenever it holds the key, else the upper-cased name and "-DOMAIN"
handle(whois_data, domain_name) ==
    get_default(whois_data, "registry_domain_id", Str(Upper(domain_name) \o HANDLE_SUFFIX))

\* status_normalized of a list, or the one s_lower of a string: the set of
\* the normalised entries
status_normalized(whois_data) ==
    LET status == Or(get(whois_data, "status"), get(whois_data, "domain_status"))
    IN  IF ~Truthy(status) THEN {}
        ELSE IF status.t = "list" THEN {s_lower(status.l[i].s) : i \in DOMAIN status.l}
        ELSE {s_lower(status.s)}

event_table ==
    << <<"creation_date", "registration">>,
       <<"updated_date", "last update of registration">>,
       <<"expiration_date", "expiration">> >>

\* date_loop without the "event_action not in event_actions" test: every
\* date of the list becomes an event
RECURSIVE date_loop_every(_, _, _, _)
date_loop_every(st, dates, event_action, i) ==
    IF i > Len(dates) THEN st
    ELSE date_loop_every(IF Len(dates[i]) > 0
                         THEN [events |-> Append(st.events,
                                                 [eventAction |-> event_action, eventDate |-> dates[i]]),
                               event_actions |-> st.event_actions \cup {event_action}]
                         ELSE st,
                         dates, event_action, i + 1)

\* for date in formatted_dates: append the first one, under event_action
RECURSIVE date_loop(_, _, _, _)
date_loop(st, dates, event_action, i) ==
    IF i > Len(dates) THEN st
    ELSE date_loop(IF Len(dates[i]) > 0 /\ event_action \notin st.event_actions
                   THEN [events |-> Append(st.events,
                                           [eventAction |-> event_action, eventDate |-> dates[i]]),
                         event_actions |-> st.event_actions \cup {event_action}]
                   ELSE st,
                   dates, event_action, i + 1)

\* for event_name, event_action in [...]: the events of the date fields
RECURSIVE event_loop(_, _, _)
event_loop(st, whois_data, k) ==
    IF k > Len(event_table) THEN st
    ELSE event_loop(IF ~Truthy(get(whois_data, event_table[k][1])) THEN st
                    ELSE date_loop(st, format_date(get(whois_data, event_table[k][1])).l,
                                   event_table[k][2], 1),
                    whois_data, k + 1)

\* events with the event of the RDAP database put first instead of last
events_database_first(whois_data, now) ==
    <<[eventAction |-> "last update of RDAP database", eventDate |-> strftime(now)]>>
    \o event_loop([events |-> <<>>, event_actions |-> {}], whois_data, 1).events

\* the events list: the date events, then the event of the RDAP database,
\* dated utcnow()
events(whois_data, now) ==
    Append(event_loop([events |-> <<>>, event_actions |-> {}], whois_data, 1).events,
           [eventAction |-> "last update of RDAP database", eventDate |-> strftime(now)])

\* ns_set without the .lower(): the names as they were given
ns_set_as_given(whois_data) ==
    LET name_servers == Or(get(whois_data, "name_servers"), get(whois_data, "name_server"))
    IN  IF ~Truthy(name_servers) THEN {}
        ELSE IF name_servers.t = "str"
             THEN {Split(name_servers.s)[i] : i \in DOMAIN Split(name_servers.s)}
        ELSE {name_servers.l[i].s : i \in DOMAIN name_servers.l}

\* ns_set: the lower-cased names of the list, or of the tokens of a string
ns_set(whois_data) ==
    LET name_servers == Or(get(whois_data, "name_servers"), get(whois_data, "name_server"))
    IN  IF ~Truthy(name_servers) THEN {}
        ELSE IF name_servers.t = "str"
             THEN {Lower(Split(name_servers.s)[i]) : i \in DOMAIN Split(name_servers.s)}
        ELSE {Lower(name_servers.l[i].s) : i \in DOMAIN name_servers.l}

\* the resolved registrar_iana_id
registrar_iana_id(whois_data) ==
    LET registrar == get(whois_data, "registrar")
        supplied == get_default(whois_data, "registrar_iana_id", Str(<<>>))
    IN  IF Truthy(supplied) THEN supplied
        ELSE IF Contains(Lower(registrar.s), COSMOTOWN) THEN Str(IANA_COSMOTOWN)
        ELSE IF Contains(Lower(registrar.s), MARKMONITOR) THEN Str(IANA_MARKMONITOR)
        ELSE supplied

\* the emails of the record that contain "abuse", else the one of Cosmotown
abuse_emails(whois_data) ==
    LET registrar == get(whois_data, "registrar")
        emails == get(whois_data, "emails")
        IsAbuse(e) == Contains(Lower(e.s), ABUSE)
        found == IF ~Truthy(emails) THEN <<>>
                 ELSE IF emails.t = "list"
                      THEN [i \in DOMAIN SelectSeq(emails.l, IsAbuse) |->
                                SelectSeq(emails.l, IsAbuse)[i].s]
                 ELSE IF IsAbuse(emails) THEN <<emails.s>>
                 ELSE <<>>
    IN  IF found = <<>> /\ Contains(Lower(registrar.s), COSMOTOWN)
        THEN <<ABUSE_EMAIL_COSMOTOWN>>
        ELSE found

\* the phone of the record, else the one of Cosmotown
abuse_phone(whois_data) ==
    LET registrar == get(whois_data, "registrar")
        phone == get(whois_data, "registrar_abuse_contact_phone")
    IN  IF ~Truthy(phone) /\ Contains(Lower(registrar.s), COSMOTOWN)
        THEN Str(ABUSE_PHONE_COSMOTOWN)
        ELSE phone

\* abuse_entities with "and" for "or": no abuse entity unless there are both
\* an abuse email and a phone
abuse_entities_both(whois_data) ==
    IF abuse_emails(whois_data) # <<>> /\ Truthy(abuse_phone(whois_data))
    THEN << [objectClassName |-> "entity",
             roles |-> <<"abuse">>,
             vcardArray |->
                <<"vcard",
                  << [name |-> "version", params |-> <<>>, type |-> "text", value |-> "4.0"],
                     [name |-> "fn", params |-> <<>>, type |-> "text", value |-> "Abuse Contact"],
                     [name |-> "kind", params |-> <<>>, type |-> "text", value |-> "individual"],
                     [name |-> "tel", params |-> <<"type", <<"voice", "work">> >>,
                      type |-> "uri", value |-> TEL \o abuse_phone(whois_data).s] >>
                  \o [i \in DOMAIN abuse_emails(whois_data) |->
                        [name |-> "email", params |-> <<"type", "work">>,
                         type |-> "text", value |-> abuse_emails(whois_data)[i]]] >>] >>
    ELSE <<>>

\* registrar_entity['entities']: the abuse entity, when there is an abuse
\* email or phone
abuse_entities(whois_data) ==
    LET mails == abuse_emails(whois_data)
        phone == abuse_phone(whois_data)
    IN  IF mails # <<>> \/ Truthy(phone)
        THEN << [objectClassName |-> "entity",
                 roles |-> <<"abuse">>,
                 vcardArray |->
                    <<"vcard",
                      << [name |-> "version", params |-> <<>>, type |-> "text", value |-> "4.0"],
                         [name |-> "fn", params |-> <<>>, type |-> "text", value |-> "Abuse Contact"],
                         [name |-> "kind", params |-> <<>>, type |-> "text", value |-> "individual"] >>
                      \o (IF Truthy(phone)
                          THEN << [name |-> "tel", params |-> <<"type", <<"voice", "work">> >>,
                                   type |-> "uri", value |-> TEL \o phone.s] >>
                          ELSE <<>>)
                      \o [i \in DOMAIN mails |->
                            [name |-> "email", params |-> <<"type", "work">>,
                             type |-> "text", value |-> mails[i]]] >>] >>
        ELSE <<>>

\* rdap_response['entities']: the registrar entity, when the record names
\* a registrar
entities(whois_data) ==
    LET registrar == get(whois_data, "registrar")
    IN  IF ~Truthy(registrar) THEN <<>>
        ELSE << [objectClassName |-> "entity",
                 handle |-> registrar_iana_id(whois_data),
                 roles |-> <<"registrar">>,
                 publicIds |-> << [type |-> "IANA Registrar ID",
                                   identifier |-> registrar_iana_id(whois_data)] >>,
                 vcardArray |->
                    <<"vcard",
                      << [name |-> "version", params |-> <<>>, type |-> "text", value |-> "4.0"],
                         [name |-> "fn", params |-> <<>>, type |-> "text", value |-> registrar.s],
                         [name |-> "kind", params |-> <<>>, type |-> "text", value |-> "org"] >>
                      \o (IF Contains(Lower(registrar.s), COSMOTOWN)
                          THEN << [name |-> "adr",
                                   params |-> <<"label", "68 Willow Road\nMenlo Park\nCA\n94025\nUS">>,
                                   type |-> "text",
                                   value |-> <<"", "", "68 Willow Road", "Menlo Park", "CA", "94025", "US">>] >>
                          ELSE <<>>) >>,
                 entities |-> abuse_entities(whois_data)] >>

HTTPS_HOST == <<"h","t","t","p","s",":","/","/">>

DOMAIN_PATH == <<"/","d","o","m","a","i","n","/">>

\* rdap_response['secureDNS']['delegationSigned']; .lower() raises for a
\* dnssec entry that is no string
dnssec_raises(whois_data) == get_default(whois_data, "dnssec", Str(<<>>)).t # "str"

delegationSigned(whois_data) ==
    Lower(get_default(whois_data, "dnssec", Str(<<>>)).s) = SIGNEDDELEGATION

\* rdap_response['links']
links(whois_data, domain_name) ==
    LET registrar_whois_server ==
            Or(get(whois_data, "registrar_whois_server"), get(whois_data, "whois_server"))
    IN  << [value |-> SELF_LINK \o Lower(domain_name), rel |-> "self",
            href |-> SELF_LINK \o Lower(domain_name), mediaType |-> "application/rdap+json"] >>
        \o (IF Truthy(registrar_whois_server)
            THEN << [value |-> HTTPS_HOST \o registrar_whois_server.s \o DOMAIN_PATH \o Lower(domain_name),
                     rel |-> "related",
                     href |-> HTTPS_HOST \o registrar_whois_server.s \o DOMAIN_PATH \o Lower(domain_name),
                     mediaType |-> "application/rdap+json"] >>
            ELSE <<>>)

\* rdap_response['notices']
notices ==
    << [title |-> "Terms of Use",
        description |-> <<"Service subject to Terms of Use.">>,
        links |-> << [href |-> "https://www.cosmotown.com/terms", rel |-> "alternate",
                      mediaType |-> "text/html"] >>],
       [title |-> "Status Codes",
        description |-> <<"For more information on domain status codes, please visit https://icann.org/epp">>,
        links |-> << [href |-> "https://icann.org/epp", rel |-> "alternate",
                      mediaType |-> "text/html"] >>],
       [title |-> "RDDS Inaccuracy Complaint Form",
        description |-> <<"URL of the ICANN RDDS Inaccuracy Complaint Form: https://www.icann.org/wicf">>,
        links |-> << [href |-> "https://www.icann.org/wicf", rel |-> "alternate",
                      mediaType |-> "text/html"] >>] >>

\* rdap_response['port43'], Absent when the key is not set
port43(whois_data) ==
    LET whois_server ==
            Or(get(whois_data, "whois_server"), get(whois_data, "registrar_whois_server"))
    IN  IF Truthy(whois_server) THEN whois_server ELSE Absent

\* what a call ends with: a returned value or a raised exception
Return(v) == [state |-> "returned", value |-> v, exc |-> ""]

Raise(msg) == [state |-> "raised", value |-> <<>>, exc |-> msg]

NotCalled == [state |-> "none", value |-> <<>>, exc |-> ""]

\* the initial rdap_response; whois_data.get raises when whois_data is None
rdap_shell(whois_data, domain_name) ==
    IF whois_data.none
    THEN Raise("'NoneType' object has no attribute 'get'")
    ELSE Return([objectClassName |-> "domain",
                 handle |-> handle(whois_data, domain_name),
                 ldhName |-> Lower(domain_name),
                 unicodeName |-> domain_name,
                 status |-> <<>>,
                 entities |-> <<>>,
                 events |-> <<>>,
                 nameservers |-> <<>>,
                 secureDNS |-> [delegationSigned |-> FALSE],
                 links |-> <<>>,
                 notices |-> <<>>,
                 rdapConformance |-> rdapConformance,
                 port43 |-> Absent])

\* map_whois_to_rdap(whois_data, domain_name), with what it reads besides its
\* arguments: now is utcnow(), status_list and ns_list are the orders
\* list(status_normalized) and the iteration over ns_set give
map_whois_to_rdap(whois_data, domain_name, now, status_list, ns_list) ==
    LET shell == rdap_shell(whois_data, domain_name)
    IN  IF shell.state = "raised" THEN shell
        ELSE IF whois_data.none THEN shell
        ELSE IF dnssec_raises(whois_data)
        THEN Raise(IF get_default(whois_data, "dnssec", Str(<<>>)).t = "none"
                   THEN "'NoneType' object has no attribute 'lower'"
                   ELSE "'list' object has no attribute 'lower'")
        ELSE Return([shell.value EXCEPT
                 !.status = status_list,
                 !.events = events(whois_data, now),
                 !.nameservers = [i \in DOMAIN ns_list |->
                                    [objectClassName |-> "nameserver", ldhName |-> ns_list[i]]],
                 !.entities = entities(whois_data),
                 !.secureDNS = [delegationSigned |-> delegationSigned(whois_data)],
                 !.links = links(whois_data, domain_name),
                 !.notices = notices,
                 !.port43 = port43(whois_data)])

\* ------------------------------------------------------------ the inputs

MaxStatusList == 2

MaxDateList == 2

MaxNsList == 2

MaxEmailList == 2

MaxRequests == 2

\* the sequences over a sequence of elements, of length 1..n
SeqsUpTo(elems, n) == UNION {[1..k -> Range(elems)] : k \in 1..n}

\* the requested names
Domains ==
    { <<"E","x","a","m","p","l","e",".","C","O","M">>,   \* Example.COM
      <<"r","d","a","p","-","t","e","s","t",".","i","o">> }  \* rdap-test.io

\* utcnow() at the time of the call
Clock == {<<2026, 1, 2, 3, 4, 5>>, <<2019, 9, 9, 15, 39, 4>>}

StatusStrings ==
    << Str(<<"c","l","i","e","n","t","T","r","a","n","s","f","e","r","P","r","o","h","i","b","i","t","e","d"," ","(","h","t","t","p","s",":","/","/","i","c","a","n","n",".","o","r","g","/","e","p","p","#","c","l","i","e","n","t","T","r","a","n","s","f","e","r","P","r","o","h","i","b","i","t","e","d",")">>),  \* 'clientTransferProhibited (https://icann.org/epp#clientTransferProhibited)'
       Str(<<"c","l","i","e","n","t","T","r","a","n","s","f","e","r","P","r","o","h","i","b","i","t","e","d"," ","h","t","t","p","s",":","/","/","i","c","a","n","n",".","o","r","g","/","e","p","p","#","c","l","i","e","n","t","T","r","a","n","s","f","e","r","P","r","o","h","i","b","i","t","e","d">>),  \* 'clientTransferProhibited https://icann.org/epp#clientTransferProhibited'
       Str(<<"c","l","i","e","n","t","T","r","a","n","s","f","e","r","P","r","o","h","i","b","i","t","e","d">>),  \* 'clientTransferProhibited'
       Str(<<"o","k">>),  \* 'ok'
       Str(<<"c","l","i","e","n","t","H","o","l","d"," ","S","e","r","v","e","r","H","o","l","d">>),  \* 'clientHold ServerHold'
       Str(<<"p","e","n","d","i","n","g","D","e","l","e","t","e"," ","(","r","e","d","e","m","p","t","i","o","n","P","e","r","i","o","d">>),  \* 'pendingDelete (redemptionPeriod'
       Str(<<"A","C","T","I","V","E">>) >>  \* 'ACTIVE'

DateStrings ==
    << Str(<<"2","0","1","9","-","0","9","-","0","9"," ","1","5",":","3","9",":","0","4">>),  \* '2019-09-09 15:39:04'
       Str(<<"2","0","2","4","-","0","8","-","0","2"," ","0","2",":","1","7",":","3","3","+","0","0",":","0","0">>),  \* '2024-08-02 02:17:33+00:00'
       Str(<<"2","0","2","4","-","0","8","-","0","2","T","0","2",":","1","7",":","3","3","Z">>),  \* '2024-08-02T02:17:33Z'
       Str(<<"2","0","2","4","-","0","8","-","0","2">>),  \* '2024-08-02'
       Str(<<"b","e","f","o","r","e"," ","A","u","g","-","1","9","9","6">>),  \* 'before Aug-1996'
       Str(<<"2","0","2","3","-","0","2","-","3","0">>) >>  \* '2023-02-30'

DateElems == DateStrings \o << Datetime(<<2021, 3, 4, 5, 6, 7>>) >>

NsNames ==
    << Str(<<"N","S","1",".","E","X","A","M","P","L","E",".","c","o","m">>),  \* 'NS1.EXAMPLE.com'
       Str(<<"n","s","1",".","e","x","a","m","p","l","e",".","C","O","M">>),  \* 'ns1.example.COM'
       Str(<<"n","s","2",".","e","x","a","m","p","l","e",".","c","o","m">>) >>  \* 'ns2.example.com'

NsStrings ==
    << Str(<<"N","S","1",".","E","X","A","M","P","L","E",".","c","o","m"," ","n","s","1",".","e","x","a","m","p","l","e",".","C","O","M"," "," ","n","s","2",".","e","x","a","m","p","l","e",".","c","o","m">>),  \* 'NS1.EXAMPLE.com ns1.example.COM  ns2.example.com'
       Str(<<"n","s","2",".","e","x","a","m","p","l","e",".","c","o","m">>) >>  \* 'ns2.example.com'

Registrars ==
    << Str(<<"C","o","s","m","o","t","o","w","n",","," ","I","n","c",".">>),  \* 'Cosmotown, Inc.'
       Str(<<"M","a","r","k","M","o","n","i","t","o","r"," ","I","n","c",".">>),  \* 'MarkMonitor Inc.'
       Str(<<"E","x","a","m","p","l","e"," ","R","e","g","i","s","t","r","a","r">>) >>  \* 'Example Registrar'

EmailStrings ==
    << Str(<<"A","b","u","s","e","@","e","x","a","m","p","l","e",".","n","e","t">>),  \* 'Abuse@example.net'
       Str(<<"a","d","m","i","n","@","e","x","a","m","p","l","e",".","n","e","t">>) >>  \* 'admin@example.net'

EmptyRecord ==
    [k \in {"registry_domain_id", "status", "domain_status", "creation_date",
            "updated_date", "expiration_date", "name_servers", "name_server",
            "registrar", "registrar_iana_id", "registrar_abuse_contact_phone",
            "emails", "dnssec", "registrar_whois_server", "whois_server"} |-> Absent]

\* a WhoisEntry holding the entries f, and whois_data = None
Record(f) == [none |-> FALSE, f |-> f]

NoRecord == [none |-> TRUE, f |-> EmptyRecord]

\* one string or a list of strings, or no value
OneOrMany(elems, n) == Range(elems) \cup {List(l) : l \in SeqsUpTo(elems, n)}

Valueless == {Absent, None, Str(<<>>)}

StatusRecords ==
    {Record([EmptyRecord EXCEPT !["status"] = v]) :
        v \in OneOrMany(StatusStrings, MaxStatusList) \cup Valueless \cup {List(<<>>)}}
    \cup {Record([EmptyRecord EXCEPT !["status"] = v, !["domain_status"] = StatusStrings[1]]) :
            v \in Valueless \cup {StatusStrings[4]}}

DateRecords ==
    {Record([EmptyRecord EXCEPT ![k] = v]) :
        k \in {"creation_date", "updated_date", "expiration_date"},
        v \in OneOrMany(DateElems, MaxDateList) \cup Valueless}
    \cup {Record([EmptyRecord EXCEPT !["creation_date"] = c, !["updated_date"] = u,
                                     !["expiration_date"] = e]) :
            c \in {None, DateElems[1], DateElems[5]},
            u \in {Absent, DateElems[3], DateElems[6], List(<<DateElems[5], DateElems[2]>>)},
            e \in {DateElems[4], DateElems[7], List(<<DateElems[6]>>)}}

NsRecords ==
    {Record([EmptyRecord EXCEPT !["name_servers"] = v]) :
        v \in OneOrMany(NsNames, MaxNsList) \cup Range(NsStrings) \cup Valueless}
    \cup {Record([EmptyRecord EXCEPT !["name_servers"] = v, !["name_server"] = NsStrings[1]]) :
            v \in {None, NsNames[3]}}

RegistrarRecords ==
    {Record([EmptyRecord EXCEPT !["registrar"] = r, !["registrar_iana_id"] = i,
                                !["emails"] = m, !["registrar_abuse_contact_phone"] = ph]) :
        r \in Range(Registrars) \cup {Absent, None},
        i \in {Absent, None, Str(<<>>), Str(<<"9","9","9","9">>)},
        m \in OneOrMany(EmailStrings, MaxEmailList) \cup {Absent, None},
        ph \in {Absent, None, Str(<<"+","1",".","5","5","5","0","1","0","0">>)}}

DnssecRecords ==
    {Record([EmptyRecord EXCEPT !["dnssec"] = v]) :
        v \in {Absent, None, Str(<<>>),
               Str(<<"s","i","g","n","e","d","D","e","l","e","g","a","t","i","o","n">>),
               Str(<<"S","I","G","N","E","D","D","E","L","E","G","A","T","I","O","N">>),
               Str(<<"u","n","s","i","g","n","e","d">>),
               Str(<<"s","i","g","n","e","d","D","e","l","e","g","a","t","i","o","n"," ","y","e","s">>),
               List(<<Str(<<"u","n","s","i","g","n","e","d">>), Str(<<"s","i","g","n","e","d","D","e","l","e","g","a","t","i","o","n">>)>>)}}

HandleRecords ==
    {Record([EmptyRecord EXCEPT !["registry_domain_id"] = v, !["whois_server"] = w,
                                !["registrar_whois_server"] = rw]) :
        v \in {Absent, None, Str(<<>>), Str(<<"2","3","3","6","7","9","9","_","D","O","M","A","I","N","_","C","O","M","-","V","R","S","N">>)},
        w \in {Absent, Str(<<"w","h","o","i","s",".","c","o","s","m","o","t","o","w","n",".","c","o","m">>)},
        rw \in {Absent, None, Str(<<"w","h","o","i","s",".","m","a","r","k","m","o","n","i","t","o","r",".","c","o","m">>)}}

Records ==
    StatusRecords \cup DateRecords \cup NsRecords \cup RegistrarRecords
    \cup DnssecRecords \cup HandleRecords

\* what whois.whois does for the requested name: it returns a record (or
\* nothing), or raises
Upstreams ==
    {[fails |-> FALSE, data |-> r, exc |-> ""] : r \in Records \cup {NoRecord}}
    \cup {[fails |-> TRUE, data |-> NoRecord, exc |-> "timed out"]}

\* ------------------------------------------------------ the request handler

VARIABLES
    upstream,       \* what the WHOIS service holds for the requested names
    pc,             \* where domain_lookup is: idle, whois, map, respond, except, after
    requests,       \* GET /domain/<name> requests received
    lookups,        \* calls of whois.whois
    sent,           \* responses sent
    domain_name,    \* domain_lookup's argument
    whois_data,     \* domain_lookup's whois_data
    rdap_response,  \* what map_whois_to_rdap ended with
    exc,            \* the exception caught, [raised |-> FALSE] when none
    response        \* the response object

vars == <<upstream, pc, requests, lookups, sent, domain_name, whois_data,
          rdap_response, exc, response>>

NoException == [raised |-> FALSE, msg |-> ""]

NoResponse == [status |-> 0, body |-> <<>>, headers |-> <<>>]

\* json.dumps(obj): the JSON document of obj
dumps(obj) == [json |-> obj]

\* response.headers[name] = value
SetHeader(headers, name, value) ==
    IF \E i \in DOMAIN headers : headers[i][1] = name
    THEN [i \in DOMAIN headers |-> IF headers[i][1] = name THEN <<name, value>> ELSE headers[i]]
    ELSE Append(headers, <<name, value>>)

Init ==
    /\ upstream \in Upstreams
    /\ pc = "idle"
    /\ requests = 0
    /\ lookups = 0
    /\ sent = 0
    /\ domain_name = <<>>
    /\ whois_data = NoRecord
    /\ rdap_response = NotCalled
    /\ exc = NoException
    /\ response = NoResponse

\* the route: GET /domain/<path:domain_name> enters domain_lookup
Request(name) ==
    /\ pc = "idle"
    /\ requests < MaxRequests
    /\ requests' = requests + 1
    /\ domain_name' = name
    /\ whois_data' = NoRecord
    /\ rdap_response' = NotCalled
    /\ exc' = NoException
    /\ response' = NoResponse
    /\ pc' = "whois"
    /\ UNCHANGED <<upstream, lookups, sent>>

\* whois_data = whois.whois(domain_name)
WhoisLookup ==
    /\ pc = "whois"
    /\ lookups' = lookups + 1
    /\ IF upstream.fails
       THEN /\ exc' = [raised |-> TRUE, msg |-> upstream.exc]
            /\ pc' = "except"
            /\ UNCHANGED whois_data
       ELSE /\ whois_data' = upstream.data
            /\ pc' = "map"
            /\ UNCHANGED exc
    /\ UNCHANGED <<upstream, requests, sent, domain_name, rdap_response, response>>

\* rdap_response = map_whois_to_rdap(whois_data, domain_name)
MapWhoisToRdap ==
    /\ pc = "map"
    /\ \E now \in Clock,
          status_list \in Orderings(status_normalized(whois_data)),
          ns_list \in Orderings(ns_set(whois_data)) :
            rdap_response' = map_whois_to_rdap(whois_data, domain_name, now, status_list, ns_list)
    /\ IF rdap_response'.state = "raised"
       THEN exc' = [raised |-> TRUE, msg |-> rdap_response'.exc] /\ pc' = "except"
       ELSE UNCHANGED exc /\ pc' = "respond"
    /\ UNCHANGED <<upstream, requests, lookups, sent, domain_name, whois_data, response>>

\* response = make_response(json.dumps(rdap_response)) and its two headers
Respond ==
    /\ pc = "respond"
    /\ response' = [status |-> 200,
                    body |-> dumps(rdap_response.value),
                    headers |-> SetHeader(SetHeader(<<>>, "Content-Type", "application/rdap+json"),
                                          "Access-Control-Allow-Origin", "*")]
    /\ pc' = "after"
    /\ UNCHANGED <<upstream, requests, lookups, sent, domain_name, whois_data, rdap_response, exc>>

\* Except retrying the lookup instead of answering
Except_retry ==
    /\ pc = "except"
    /\ pc' = "whois"
    /\ exc' = NoException
    /\ UNCHANGED <<upstream, requests, lookups, sent, domain_name, whois_data, rdap_response,
                   response>>

\* except Exception as e: the error document, with status 500
Except ==
    /\ pc = "except"
    /\ response' = [status |-> 500,
                    body |-> dumps([errorCode |-> 500,
                                    title |-> "Internal Server Error",
                                    description |-> <<exc.msg>>,
                                    rdapConformance |-> rdapConformance]),
                    headers |-> SetHeader(SetHeader(<<>>, "Content-Type", "application/rdap+json"),
                                          "Access-Control-Allow-Origin", "*")]
    /\ pc' = "after"
    /\ UNCHANGED <<upstream, requests, lookups, sent, domain_name, whois_data, rdap_response, exc>>

\* @app.after_request: the response leaves with the CORS header
add_cors_headers ==
    /\ pc = "after"
    /\ response' = [response EXCEPT !.headers = SetHeader(@, "Access-Control-Allow-Origin", "*")]
    /\ sent' = sent + 1
    /\ pc' = "idle"
    /\ UNCHANGED <<upstream, requests, lookups, domain_name, whois_data, rdap_response, exc>>

Next ==
    \/ \E name \in Domains : Request(name)
    \/ WhoisLookup
    \/ MapWhoisToRdap
    \/ Respond
    \/ Except
    \/ add_cors_headers

Spec == Init /\ [][Next]_vars

\* ------------------------------------------------------------- the claims

\* map_whois_to_rdap has been called for the current request
Called == rdap_response.state # "none"

\* map_whois_to_rdap has returned an object
Returned == rdap_response.state = "returned"

\* a string value that is not empty
NonEmptyStr(v) == v.t = "str" /\ Len(v.s) > 0

IsAlnum(c) == IsUpper(c) \/ IsLower(c) \/ IsDigit(c)

IndexOf(q, x) == CHOOSE i \in DOMAIN q : q[i] = x

\* C1: when whois.whois returns None, map_whois_to_rdap does not fail: it
\* returns an object with objectClassName "domain", a non-empty handle,
\* ldhName the lower-cased requested name, and empty status, entities and
\* nameservers.
C1_NullRecordGivesShell ==
    (Called /\ whois_data.none) =>
        /\ Returned
        /\ rdap_response.value.objectClassName = "domain"
        /\ NonEmptyStr(rdap_response.value.handle)
        /\ rdap_response.value.ldhName = Lower(domain_name)
        /\ rdap_response.value.status = <<>>
        /\ rdap_response.value.entities = <<>>
        /\ rdap_response.value.nameservers = <<>>

DatabaseEvent == "last update of RDAP database"

\* C2: every object map_whois_to_rdap returns has an events list whose last
\* element is the "last update of RDAP database" event, and that action
\* occurs exactly once in the list.
C2_DatabaseEventLastAndOnce ==
    Returned =>
        /\ Len(rdap_response.value.events) >= 1
        /\ rdap_response.value.events[Len(rdap_response.value.events)].eventAction = DatabaseEvent
        /\ Cardinality({i \in DOMAIN rdap_response.value.events :
                            rdap_response.value.events[i].eventAction = DatabaseEvent}) = 1

\* C2's case: a record with no creation date, a list of update dates whose
\* first does not parse, and an expiration date; the object has the two date
\* events and then the database event
C2_Witness ==
    /\ Returned
    /\ whois_data.f["creation_date"].t = "none"
    /\ whois_data.f["updated_date"].t = "list"
    /\ ~parse_date(whois_data.f["updated_date"].l[1].s).ok
    /\ Len(rdap_response.value.events) = 3
    /\ rdap_response.value.events[3].eventAction = DatabaseEvent

\* an output status entry is lower-case, its words separated by single
\* spaces, with no URL and no parenthesis
CleanStatus(e) ==
    /\ \A i \in DOMAIN e : ~IsUpper(e[i])
    /\ \A i \in DOMAIN e :
         IsSpace(e[i]) => /\ e[i] = " "
                          /\ i > 1 /\ i < Len(e)
                          /\ ~IsSpace(e[i + 1])
    /\ ~Contains(e, HTTP) /\ ~Contains(e, HTTPS)
    /\ \A i \in DOMAIN e : e[i] \notin {"(", ")"}

\* C3: every entry of the output status list is lower-case, has its words
\* separated by single spaces and holds no URL and no parenthesis; the list
\* has no duplicates; a missing status gives the empty list.
C3_StatusNormalized ==
    Returned =>
        /\ \A i \in DOMAIN rdap_response.value.status : CleanStatus(rdap_response.value.status[i])
        /\ \A i, j \in DOMAIN rdap_response.value.status :
             rdap_response.value.status[i] = rdap_response.value.status[j] => i = j
        /\ (~Truthy(get(whois_data, "status")) /\ ~Truthy(get(whois_data, "domain_status")))
             => rdap_response.value.status = <<>>

\* the fallback handle C4 describes begins with the requested name, every
\* character outside [A-Za-z0-9_] replaced by "_", cut to 80 characters
Sanitized(name) ==
    SubSeq([i \in DOMAIN name |-> IF IsAlnum(name[i]) \/ name[i] = "_" THEN name[i] ELSE "_"],
           1, IF Len(name) < 80 THEN Len(name) ELSE 80)

\* C4: the handle of every returned object is non-empty: the registry domain
\* id verbatim when the record supplies one, otherwise the sanitised,
\* truncated requested name followed by a fixed suffix.
C4_HandleNonEmptyOrDerived ==
    Returned =>
        /\ NonEmptyStr(rdap_response.value.handle)
        /\ IF Truthy(get(whois_data, "registry_domain_id"))
           THEN rdap_response.value.handle = get(whois_data, "registry_domain_id")
           ELSE /\ Len(rdap_response.value.handle.s) > Len(Sanitized(domain_name))
                /\ SubSeq(rdap_response.value.handle.s, 1, Len(Sanitized(domain_name)))
                     = Sanitized(domain_name)

\* the registrar id C5 describes: the supplied one, else the mapped one, else ""
ExpectedIanaId(rec) ==
    IF Truthy(get(rec, "registrar_iana_id")) THEN get(rec, "registrar_iana_id")
    ELSE IF Contains(Lower(get(rec, "registrar").s), COSMOTOWN) THEN Str(IANA_COSMOTOWN)
    ELSE IF Contains(Lower(get(rec, "registrar").s), MARKMONITOR) THEN Str(IANA_MARKMONITOR)
    ELSE Str(<<>>)

\* C5: for a record with a registrar name, the registrar entity's handle and
\* its IANA Registrar ID are the supplied id, else the statically mapped id,
\* else the empty string, never null.
C5_RegistrarHandle ==
    (Returned /\ Truthy(get(whois_data, "registrar"))) =>
        /\ Len(rdap_response.value.entities) = 1
        /\ rdap_response.value.entities[1].handle = ExpectedIanaId(whois_data)
        /\ rdap_response.value.entities[1].publicIds[1].identifier = ExpectedIanaId(whois_data)
        /\ rdap_response.value.entities[1].handle.t = "str"

\* C6: for every record, delegationSigned is true iff the dnssec value,
\* lower-cased, is "signeddelegation"; any other value, an absent or
\* valueless dnssec included, gives false and not a failure.
C6_DelegationSigned ==
    (Called /\ ~whois_data.none) =>
        /\ Returned
        /\ rdap_response.value.secureDNS.delegationSigned
             <=> (/\ whois_data.f["dnssec"].t = "str"
                  /\ Lower(whois_data.f["dnssec"].s) = SIGNEDDELEGATION)

Header(name) ==
    {response.headers[i][2] : i \in {j \in DOMAIN response.headers : response.headers[j][1] = name}}

RdapKeys ==
    {"objectClassName", "handle", "ldhName", "unicodeName", "status", "entities", "events",
     "nameservers", "secureDNS", "links", "notices", "rdapConformance", "port43"}

\* C7: every request performs exactly one WHOIS lookup and produces exactly
\* one response: 200 with the complete RDAP object, or, for any failure of the
\* WHOIS client or of map_whois_to_rdap, 500 with the error document; both
\* carry Content-Type application/rdap+json and Access-Control-Allow-Origin *.
C7_OneLookupOneResponse ==
    /\ lookups = (IF pc = "whois" THEN requests - 1 ELSE requests)
    /\ sent = (IF pc = "idle" THEN requests ELSE requests - 1)
    /\ (pc = "idle" /\ requests > 0) =>
         /\ IF upstream.fails \/ rdap_response.state = "raised"
            THEN /\ response.status = 500
                 /\ response.body =
                      dumps([errorCode |-> 500, title |-> "Internal Server Error",
                             description |-> <<IF upstream.fails THEN upstream.exc
                                               ELSE rdap_response.exc>>,
                             rdapConformance |-> rdapConformance])
            ELSE /\ response.status = 200
                 /\ Returned
                 /\ response.body = dumps(rdap_response.value)
                 /\ DOMAIN response.body.json = RdapKeys
                 /\ response.body.json.ldhName = Lower(domain_name)
                 /\ response.body.json.notices = notices
                 /\ Len(response.body.json.links) >= 1
                 /\ Len(response.body.json.events) >= 1
         /\ Header("Content-Type") = {"application/rdap+json"}
         /\ Header("Access-Control-Allow-Origin") = {"*"}

\* C7's case: map_whois_to_rdap raised, and the request ended with one
\* lookup and the 500 document
C7_Witness ==
    /\ pc = "idle"
    /\ sent = 1
    /\ lookups = 1
    /\ ~upstream.fails
    /\ rdap_response.state = "raised"
    /\ response.status = 500

\* the names the record gives: the elements of the list, or the tokens of
\* the string
GivenNames(rec) ==
    LET v == Or(get(rec, "name_servers"), get(rec, "name_server"))
    IN  IF v.t = "list" THEN {v.l[i].s : i \in DOMAIN v.l}
        ELSE IF v.t = "str" THEN Range(Split(v.s))
        ELSE {}

\* C8: the nameservers list holds exactly one Nameserver per distinct
\* lower-cased name given: every emitted name is lower-case and no two
\* emitted names are equal ignoring case.
C8_NameserversDeduplicated ==
    Returned =>
        /\ {rdap_response.value.nameservers[i].ldhName : i \in DOMAIN rdap_response.value.nameservers}
             = {Lower(n) : n \in GivenNames(whois_data)}
        /\ \A i \in DOMAIN rdap_response.value.nameservers :
             \A k \in DOMAIN rdap_response.value.nameservers[i].ldhName :
                ~IsUpper(rdap_response.value.nameservers[i].ldhName[k])
        /\ \A i, j \in DOMAIN rdap_response.value.nameservers :
             Lower(rdap_response.value.nameservers[i].ldhName)
               = Lower(rdap_response.value.nameservers[j].ldhName) => i = j

\* C8's case: two names that differ only in case gave one Nameserver
C8_Witness ==
    /\ Returned
    /\ whois_data.f["name_servers"].t = "list"
    /\ Len(whois_data.f["name_servers"].l) = 2
    /\ whois_data.f["name_servers"].l[1].s # whois_data.f["name_servers"].l[2].s
    /\ Len(rdap_response.value.nameservers) = 1

\* the values of a date field, and whether and how one is formatted
DateValues(v) == IF ~Truthy(v) THEN <<>> ELSE IF v.t = "list" THEN v.l ELSE <<v>>

Parses(d) == d.t = "dt" \/ (d.t = "str" /\ parse_date(d.s).ok)

Formatted(d) == IF d.t = "dt" THEN strftime(d.d) ELSE strftime(parse_date(d.s).d)

\* the date events: all but the last event
DateEvents == SubSeq(rdap_response.value.events, 1, Len(rdap_response.value.events) - 1)

EventActions == <<"registration", "last update of registration", "expiration">>

EventFields == <<"creation_date", "updated_date", "expiration_date">>

\* C9: the events list holds at most one event per action, in the order
\* registration, last update of registration, expiration; the event of a
\* field carries the first of its values that parses, and a field none of
\* whose values parses has no event.
C9_OneEventPerAction ==
    Returned =>
        /\ \A i \in DOMAIN DateEvents : \E k \in DOMAIN EventActions :
             DateEvents[i].eventAction = EventActions[k]
        /\ \A i, j \in DOMAIN DateEvents :
             i < j => IndexOf(EventActions, DateEvents[i].eventAction)
                        < IndexOf(EventActions, DateEvents[j].eventAction)
        /\ \A k \in DOMAIN EventFields :
             LET vs == DateValues(get(whois_data, EventFields[k]))
                 ok == {i \in DOMAIN vs : Parses(vs[i])}
                 at == {i \in DOMAIN DateEvents : DateEvents[i].eventAction = EventActions[k]}
             IN  IF ok = {} THEN at = {}
                 ELSE /\ Cardinality(at) = 1
                      /\ \A i \in at : DateEvents[i].eventDate = Formatted(vs[Min(ok)])

\* C9's case: a creation date with two values that parse to different
\* dates; the one registration event carries the first
C9_Witness ==
    /\ Returned
    /\ whois_data.f["creation_date"].t = "list"
    /\ Len(whois_data.f["creation_date"].l) = 2
    /\ Parses(whois_data.f["creation_date"].l[1])
    /\ Parses(whois_data.f["creation_date"].l[2])
    /\ Formatted(whois_data.f["creation_date"].l[1]) # Formatted(whois_data.f["creation_date"].l[2])
    /\ Len(DateEvents) = 1
    /\ DateEvents[1].eventDate = Formatted(whois_data.f["creation_date"].l[1])

\* the abuse addresses C10 describes: the emails of the record that contain
\* "abuse", else the fixed one of Cosmotown
IsCosmotown(rec) ==
    Truthy(get(rec, "registrar")) /\ Contains(Lower(get(rec, "registrar").s), COSMOTOWN)

RecordAbuseEmails(rec) ==
    LET m == get(rec, "emails")
        all == IF m.t = "list" THEN m.l ELSE IF m.t = "str" THEN <<m>> ELSE <<>>
        at == SelectSeq(all, LAMBDA e : Contains(Lower(e.s), ABUSE))
    IN  [i \in DOMAIN at |-> at[i].s]

ExpectedAbuseEmails(rec) ==
    IF RecordAbuseEmails(rec) # <<>> THEN RecordAbuseEmails(rec)
    ELSE IF IsCosmotown(rec) THEN <<ABUSE_EMAIL_COSMOTOWN>>
    ELSE <<>>

\* the abuse phone C10 describes: the one of the record, else the fixed one
\* of Cosmotown, else none
ExpectedAbusePhone(rec) ==
    IF Truthy(get(rec, "registrar_abuse_contact_phone"))
    THEN <<get(rec, "registrar_abuse_contact_phone").s>>
    ELSE IF IsCosmotown(rec) THEN <<ABUSE_PHONE_COSMOTOWN>>
    ELSE <<>>

\* the values of the vCard properties called name, in order
Props(entity, name) ==
    LET ps == entity.vcardArray[2]
        at == SelectSeq([i \in DOMAIN ps |-> i], LAMBDA i : ps[i].name = name)
    IN  [i \in DOMAIN at |-> ps[at[i]].value]

\* the abuse entities nested under a registrar entity are as C10 describes
AbuseEntityAsExpected(registrar_entity, rec) ==
    IF ExpectedAbuseEmails(rec) # <<>> \/ ExpectedAbusePhone(rec) # <<>>
    THEN /\ Len(registrar_entity.entities) = 1
         /\ registrar_entity.entities[1].roles = <<"abuse">>
         /\ Props(registrar_entity.entities[1], "tel")
              = [i \in DOMAIN ExpectedAbusePhone(rec) |-> TEL \o ExpectedAbusePhone(rec)[i]]
         /\ Props(registrar_entity.entities[1], "email") = ExpectedAbuseEmails(rec)
    ELSE registrar_entity.entities = <<>>

\* C10 as stated: at most one registrar entity, and whenever an abuse email
\* or an abuse phone is available, exactly one abuse entity nested under the
\* registrar entity, with a tel property iff a phone is known and one email
\* property per abuse address; no abuse entity when neither is available.
C10_AbuseEntityWheneverAvailable ==
    Returned =>
        /\ Len(rdap_response.value.entities) <= 1
        /\ \A i \in DOMAIN rdap_response.value.entities :
             /\ rdap_response.value.entities[i].roles = <<"registrar">>
             /\ AbuseEntityAsExpected(rdap_response.value.entities[i], whois_data)
        /\ (ExpectedAbuseEmails(whois_data) # <<>> \/ ExpectedAbusePhone(whois_data) # <<>>)
             => /\ Len(rdap_response.value.entities) = 1
                /\ Len(rdap_response.value.entities[1].entities) = 1

\* C10 amended: a record without a registrar name gives no entity at all,
\* whatever abuse email or phone it holds; a record with a registrar name
\* gives exactly one registrar entity, whose nested entities are as C10
\* describes.
C10_AbuseEntityUnderRegistrar ==
    Returned =>
        IF Truthy(get(whois_data, "registrar"))
        THEN /\ Len(rdap_response.value.entities) = 1
             /\ rdap_response.value.entities[1].roles = <<"registrar">>
             /\ AbuseEntityAsExpected(rdap_response.value.entities[1], whois_data)
        ELSE rdap_response.value.entities = <<>>

\* C10's case: a registrar other than Cosmotown, no phone, and emails of
\* which one is an abuse address: one abuse entity, with that email and no tel
C10_Witness ==
    /\ Returned
    /\ Truthy(get(whois_data, "registrar"))
    /\ ~IsCosmotown(whois_data)
    /\ ExpectedAbusePhone(whois_data) = <<>>
    /\ whois_data.f["emails"].t = "list"
    /\ Len(whois_data.f["emails"].l) = 2
    /\ Len(ExpectedAbuseEmails(whois_data)) = 1
    /\ Len(rdap_response.value.entities[1].entities) = 1
    /\ Props(rdap_response.value.entities[1].entities[1], "tel") = <<>>
    /\ Props(rdap_response.value.entities[1].entities[1], "email") = ExpectedAbuseEmails(whois_data)

====
